---- MODULE Spec2Model ----
(***************************************************************************)
(* MorletWaveletFilter (ptsa/data/filters/MorletWaveletFilter.py): the     *)
(* filter() call as a state machine.  One action per step of filter():     *)
(* allocation, compute_wavelet_ffts, the outer loop over the leading-index *)
(* tuples, the inner loop over the wavelets, build_output_arrays.          *)
(*                                                                         *)
(* Numbers are exact: samples are integers, coefficients Gaussian integers *)
(* <<re, im>>.  Floating-point rounding (complex64 / float32 casts) is not *)
(* modelled.  Python arrays are sequences: Python's a[i] is a[i + 1] here. *)
(***************************************************************************)
EXTENDS Integers, Sequences, FiniteSets, TLC

\* ------------------------------------------------------------ bounds
MaxLead == 2    \* leading (non-time) axes of the input
MaxSize == 2    \* size of a leading axis
MaxT    == 3    \* samples on the time axis
MaxW    == 2    \* requested frequencies (wavelets in the bank)
MaxFreq == 3    \* distinct frequencies; the lowest has the longest kernel
MaxSeed == 2    \* input data sets per shape

\* ------------------------------------------------------------ values
None == <<>>
Some(x) == <<x>>
TheValue(opt) == opt[1]

\* a cell of an np.empty array that no statement has assigned yet
Uninit == <<>>
Cell(v) == <<v>>

Min(a, b) == IF a <= b THEN a ELSE b
Max(a, b) == IF a >= b THEN a ELSE b

\* complex numbers with integer parts
Cx(re, im) == <<re, im>>
Re(c) == c[1]
Im(c) == c[2]
CZero == Cx(0, 0)
CAdd(a, b) == Cx(Re(a) + Re(b), Im(a) + Im(b))
CMul(a, b) == Cx(Re(a) * Re(b) - Im(a) * Im(b), Re(a) * Im(b) + Im(a) * Re(b))

RECURSIVE Gcd(_, _)
Gcd(a, b) == IF b = 0 THEN a ELSE Gcd(b, a % b)
Abs(n) == IF n < 0 THEN -n ELSE n

\* ------------------------------------------------------------ numpy / scipy
\* a[lo:hi] with Python's clamping of the bounds and negative indices
PyBound(i, n) == IF i < 0 THEN Max(n + i, 0) ELSE Min(i, n)
PySlice(a, lo, hi) == SubSeq(a, PyBound(lo, Len(a)) + 1, PyBound(hi, Len(a)))

\* int(x / 2): the quotient cut toward zero
IntHalf(n) == IF n >= 0 THEN n \div 2 ELSE -((-n) \div 2)

\* fft(x, n) cuts x to n samples or pads it with zeros to n samples.  The
\* transform is a bijection: a spectrum is held as the n samples it
\* transforms, the zeros of the padding left out of samples.
fft(x, n) == [n |-> n, samples |-> SubSeq(x, 1, Min(n, Len(x)))]

\* sample j (from 0) of the padded sequence
Padded(x, j) == IF j < Len(x) THEN x[j + 1] ELSE CZero

\* sum over k.. of x[k] * h[(m - k) mod n]: sample m of the circular
\* convolution of length n (the terms with x[k] in the padding are zero)
RECURSIVE CircSum(_, _, _, _, _)
CircSum(x, h, n, m, k) ==
    IF k = Len(x) THEN CZero
    ELSE CAdd(CMul(x[k + 1], Padded(h, (m - k) % n)), CircSum(x, h, n, m, k + 1))

CircConv(x, h, n) == [i \in 1..n |-> CircSum(x, h, n, i - 1, 0)]

\* X * Y of two spectra of one length (the convolution theorem): the spectrum
\* of the circular convolution
SpectrumMul(X, Y) == [n |-> X.n, samples |-> CircConv(X.samples, Y.samples, X.n)]

\* ifft(X): the n samples
ifft(X) == [i \in 1..X.n |-> Padded(X.samples, i - 1)]

\* np.abs(c) of a Gaussian integer is the square root of an integer
NpAbs(c) == [sqrt_of |-> Re(c) * Re(c) + Im(c) * Im(c)]
SquareOfRoot(r) == r.sqrt_of

\* np.angle(c) = arctan2(imag, real): two coefficients have one angle iff one
\* is a positive multiple of the other; the angle is held as the shortest
\* integer vector of that direction, and angle(0) = 0 is the direction <<1, 0>>
NpAngle(c) ==
    IF c = CZero THEN Cx(1, 0)
    ELSE LET g == Gcd(Abs(Re(c)), Abs(Im(c))) IN Cx(Re(c) \div g, Im(c) \div g)

\* ------------------------------------------------------------ inputs
LeadNames == <<"channels", "events", "sessions", "subjects">>

RECURSIVE SeqProd(_)
SeqProd(s) == IF s = <<>> THEN 1 ELSE Head(s) * SeqProd(Tail(s))

\* the index tuples with the leftmost index advancing fastest
RECURSIVE product_LeftFastest(_)
product_LeftFastest(sizes) ==
    IF sizes = <<>> THEN << <<>> >>
    ELSE LET rest == product_LeftFastest(Tail(sizes)) IN
         [n \in 1..(Head(sizes) * Len(rest)) |->
            <<(n - 1) % Head(sizes)>> \o rest[((n - 1) \div Head(sizes)) + 1]]

\* itertools.product(range(s1), ..., range(sn)): the index tuples, the
\* rightmost index advancing fastest
RECURSIVE product(_)
RECURSIVE Prefixed(_, _, _)
Prefixed(i, n, rest) ==
    IF i = n THEN <<>>
    ELSE [k \in 1..Len(rest) |-> <<i>> \o rest[k]] \o Prefixed(i + 1, n, rest)
product(sizes) ==
    IF sizes = <<>> THEN << <<>> >>
    ELSE Prefixed(0, Head(sizes), product(Tail(sizes)))

SeqRange(s) == {s[i] : i \in 1..Len(s)}
IndexTuples(sizes) == SeqRange(product(sizes))

\* the position of an index tuple in row-major order
RECURSIVE Flat(_, _)
Flat(idx, sizes) ==
    IF idx = <<>> THEN 0
    ELSE Head(idx) * SeqProd(Tail(sizes)) + Flat(Tail(idx), Tail(sizes))

\* dims.index(name), counted from 0
RECURSIVE ListIndex(_, _)
ListIndex(list, x) == IF Head(list) = x THEN 0 ELSE 1 + ListIndex(Tail(list), x)

\* sample t of the slice at row-major position n of data set seed
Sample(seed, n, t) == (((n + 1) * (t + 1) + seed * t) % 5) - 2

LeadShapes == UNION {[1..n -> 1..MaxSize] : n \in 0..MaxLead}

\* a labelled array whose last axis is time, with a coordinate per axis,
\* the scalar coordinate samplerate and its attributes (no offsets)
TimeSeriesX(lead, T, seed) ==
    [dims   |-> SubSeq(LeadNames, 1, Len(lead)) \o <<"time">>,
     shape  |-> lead \o <<T>>,
     coords |-> [name \in SeqRange(SubSeq(LeadNames, 1, Len(lead))) \union {"time", "samplerate"} |->
                    IF name = "samplerate" THEN <<250>>
                    ELSE IF name = "time" THEN [t \in 1..T |-> t - 1]
                    ELSE [i \in 1..lead[ListIndex(LeadNames, name) + 1] |-> i - 1]],
     attrs  |-> [dataset |-> seed],
     values |-> [idx \in IndexTuples(lead) |->
                    [t \in 1..T |-> Sample(seed, Flat(idx, lead), t - 1)]]]

TimeSeriesInputs ==
    {TimeSeriesX(lead, T, seed) : lead \in LeadShapes, T \in 1..MaxT, seed \in 1..MaxSeed}

Outputs == {"power", "phase", "", "bogus"}
FreqSeqs == UNION {[1..n -> 1..MaxFreq] : n \in 0..MaxW}
Positions == -(MaxLead + 2)..(MaxLead + 2)

\* ------------------------------------------------------------ ptsa.wavelet
\* the number of samples of the kernel of frequency f: the lower the
\* frequency, the longer the kernel
MorletLength(f) == MaxFreq + 1 - f

\* i^n
IPow(n) == CASE n % 4 = 0 -> Cx(1, 0) [] n % 4 = 1 -> Cx(0, 1)
             [] n % 4 = 2 -> Cx(-1, 0) [] OTHER -> Cx(0, -1)

\* a complex oscillation (a quarter turn per sample and unit of frequency)
\* under an envelope that peaks in the middle of the kernel
Morlet(f) ==
    [k \in 1..MorletLength(f) |->
        CMul(Cx(1 + Min(k - 1, MorletLength(f) - k), 0), IPow(f * (k - 1)))]

morlet_multi(freqs) == [i \in 1..Len(freqs) |-> Morlet(freqs[i])]

\* the p with 2^p >= n
RECURSIVE next_pow2(_)
next_pow2(n) == IF n <= 1 THEN 0 ELSE 1 + next_pow2((n + 1) \div 2)

RECURSIVE Pow2(_)
Pow2(p) == IF p = 0 THEN 1 ELSE 2 * Pow2(p - 1)

RECURSIVE SeqMax(_)
SeqMax(s) == IF Len(s) = 1 THEN s[1] ELSE Max(Head(s), SeqMax(Tail(s)))

\* ------------------------------------------------------------ state
VARIABLES
    time_series,                  \* self.time_series
    kwds,                         \* the constructor's keyword arguments
    frequency_dim_pos,            \* self.frequency_dim_pos
    compute_power_and_phase_fcn,  \* the function __init__ selected
    pc,                           \* where the filter() call stands
    data_iterator,                \* index tuples the iterator has yielded
    wavelet_pow_array,
    wavelet_phase_array,
    wavelet_coef_single_array,
    wavelet_fft_array,
    convolution_size_array,
    convolution_size_pow2,
    idx_tuple,
    signal_fft,
    w,
    signal_wavelet_conv,
    start_offset,
    end_offset,
    transposed_dims,
    returned,                     \* what filter() returned
    raised,                       \* the exception that left filter()
    first_returned                \* what the first filter() call on the object returned

vars == <<time_series, kwds, frequency_dim_pos, compute_power_and_phase_fcn, pc,
          data_iterator, wavelet_pow_array, wavelet_phase_array,
          wavelet_coef_single_array, wavelet_fft_array, convolution_size_array,
          convolution_size_pow2, idx_tuple, signal_fft, w, signal_wavelet_conv,
          start_offset, end_offset, transposed_dims, returned, raised,
          first_returned>>

object == <<time_series, kwds, compute_power_and_phase_fcn>>
arrays == <<wavelet_pow_array, wavelet_phase_array, wavelet_coef_single_array>>
ffts   == <<wavelet_fft_array, convolution_size_array, convolution_size_pow2>>
trim   == <<signal_wavelet_conv, start_offset, end_offset>>

\* self.time_series.shape[:-1] and self.time_series['time'].shape[0]
LeadShape == SubSeq(time_series.shape, 1, Len(time_series.shape) - 1)
TimeAxisSize == time_series.shape[Len(time_series.shape)]
output == kwds.output
freqs == kwds.freqs

\* ------------------------------------------------------------ __init__
SelectFcn(mode) ==
    IF mode = "power" THEN "compute_power"
    ELSE IF mode = "phase" THEN "compute_phase"
    ELSE "compute_power_and_phase"

Init ==
    /\ time_series \in TimeSeriesInputs
    /\ kwds \in [freqs : FreqSeqs, output : Outputs, frequency_dim_pos : Positions]
    /\ frequency_dim_pos = kwds.frequency_dim_pos
    /\ compute_power_and_phase_fcn = SelectFcn(kwds.output)
    /\ pc = "idle"
    /\ data_iterator = 0
    /\ wavelet_pow_array = None
    /\ wavelet_phase_array = None
    /\ wavelet_coef_single_array = None
    /\ wavelet_fft_array = None
    /\ convolution_size_array = None
    /\ convolution_size_pow2 = 0
    /\ idx_tuple = None
    /\ signal_fft = None
    /\ w = 0
    /\ signal_wavelet_conv = None
    /\ start_offset = 0
    /\ end_offset = 0
    /\ transposed_dims = <<>>
    /\ returned = None
    /\ raised = None
    /\ first_returned = None

\* ------------------------------------------------------------ helpers of filter()
\* np.empty(shape): one row of time_axis_size unassigned cells per index
\* tuple over shape[:-1]
NpEmpty(shape) ==
    [idx \in IndexTuples(SubSeq(shape, 1, Len(shape) - 1)) |->
        [t \in 1..shape[Len(shape)] |-> Uninit]]

\* both arrays, whatever the mode
allocate_output_arrays_Both(time_axis_size) ==
    <<Some(NpEmpty(LeadShape \o <<Len(freqs), time_axis_size>>)),
      Some(NpEmpty(LeadShape \o <<Len(freqs), time_axis_size>>))>>

allocate_output_arrays(time_axis_size) ==
    LET shape == LeadShape \o <<Len(freqs), time_axis_size>> IN
    IF output = "power" THEN <<Some(NpEmpty(shape)), None>>
    ELSE IF output = "phase" THEN <<None, Some(NpEmpty(shape))>>
    ELSE <<Some(NpEmpty(shape)), Some(NpEmpty(shape))>>

\* the real part of c^2 in place of |c|^2
compute_power_RealOfSquare(coefs) ==
    <<Some([t \in 1..Len(coefs) |-> Re(CMul(coefs[t], coefs[t]))]), None>>

compute_power(coefs) ==
    <<Some([t \in 1..Len(coefs) |-> SquareOfRoot(NpAbs(coefs[t]))]), None>>

compute_phase(coefs) ==
    <<None, Some([t \in 1..Len(coefs) |-> NpAngle(coefs[t])])>>

compute_power_and_phase(coefs) ==
    <<Some([t \in 1..Len(coefs) |-> Re(coefs[t]) * Re(coefs[t]) + Im(coefs[t]) * Im(coefs[t])]),
      Some([t \in 1..Len(coefs) |-> NpAngle(coefs[t])])>>

CallFcn(fcn, coefs) ==
    CASE fcn = "compute_power" -> compute_power(coefs)
      [] fcn = "compute_phase" -> compute_phase(coefs)
      [] OTHER -> compute_power_and_phase(coefs)

\* store(): target_array[idx_tuple] = source_array, unless the source is None
store(idx, target_array, source_array) ==
    IF source_array = None THEN target_array
    ELSE Some([TheValue(target_array) EXCEPT
                 ![idx] = [t \in 1..Len(TheValue(source_array)) |-> Cell(TheValue(source_array)[t])]])

\* the next pair of all_but_time_iterator
IterTuples == product(LeadShape)
AsComplex(signal) == [t \in 1..Len(signal) |-> Cx(signal[t], 0)]

\* ------------------------------------------------------------ compute_wavelet_ffts
LengthErrorMsg ==
    "Time series length (l_ts=%s) is shorter than maximum wavelet length (l_w=%s). "
EmptyMaxMsg == "max() arg is an empty sequence"
ValueError(msg, args) == [type |-> "ValueError", msg |-> msg, args |-> args]
TypeError(msg) == [type |-> "TypeError", msg |-> msg, args |-> <<>>]

WaveletLengths(wavelets) == [i \in 1..Len(wavelets) |-> Len(wavelets[i])]

\* a check that also refuses a time axis as long as the longest kernel
TooShort_OrEqual(s_w, time_series_length) == s_w >= time_series_length

\* no check at all
TooShort_Never(s_w, time_series_length) == FALSE

\* the check of line 179
TooShort(s_w, time_series_length) == s_w > time_series_length

\* a convolution size that leaves the kernel's length out
ConvolutionSize_SignalOnly(s_w, s_d) == s_d

\* line 189
ConvolutionSize(s_w, s_d) == s_w + s_d - 1

\* a valid length one sample too long
KernelConvolutionSize_PlusOne(wavelet, s_d) == Len(wavelet) + s_d

\* line 200
KernelConvolutionSize(wavelet, s_d) == Len(wavelet) + s_d - 1

\* the three values compute_wavelet_ffts returns, or the exception it raises
compute_wavelet_ffts ==
    LET wavelets == morlet_multi(freqs)
        time_series_length == TimeAxisSize
    IN  IF Len(wavelets) = 0
        THEN [raises |-> Some(ValueError(EmptyMaxMsg, <<>>)), returns |-> None]
        ELSE LET s_w == SeqMax(WaveletLengths(wavelets))
                 s_d == TimeAxisSize
                 size_pow2 == Pow2(next_pow2(ConvolutionSize(s_w, s_d)))
             IN  IF TooShort(s_w, time_series_length)
                 THEN [raises |-> Some(ValueError(LengthErrorMsg, <<time_series_length, s_w>>)),
                       returns |-> None]
                 ELSE [raises |-> None,
                       returns |-> Some(
                          <<[i \in 1..Len(wavelets) |-> fft(wavelets[i], size_pow2)],
                            [i \in 1..Len(wavelets) |-> KernelConvolutionSize(wavelets[i], s_d)],
                            size_pow2>>)]

\* ------------------------------------------------------------ build_output_arrays
\* list[:i] + list[i + 1:]
ListWithout(list, i) == SubSeq(list, 1, i) \o SubSeq(list, i + 2, Len(list))

\* list.insert(i, x)
ListInsert(list, i, x) ==
    SubSeq(list, 1, PyBound(i, Len(list))) \o <<x>>
        \o SubSeq(list, PyBound(i, Len(list)) + 1, Len(list))

\* line 121
OutputDims == SubSeq(time_series.dims, 1, Len(time_series.dims) - 1) \o <<"frequency", "time">>

\* a stored position that is one further on than the position asked for,
\* so that each call moves it again
NormalizedPos_Drift(n, pos) == (n + pos + 1) % n

\* a position that is not wrapped into the rank
NormalizedPos_NoWrap(n, pos) == IF pos < 0 THEN n + pos ELSE pos

\* line 130
NormalizedPos(n, pos) == (n + pos) % n

\* an exchange of the frequency axis with the axis at pos
TransposedDims_Swap(dims, pos) ==
    LET orig_frequency_idx == ListIndex(dims, "frequency") IN
    IF pos # orig_frequency_idx
    THEN [k \in 1..Len(dims) |->
            IF k = pos + 1 THEN "frequency"
            ELSE IF k = orig_frequency_idx + 1 THEN dims[pos + 1] ELSE dims[k]]
    ELSE <<>>

\* lines 123-135
TransposedDims(dims, pos) ==
    LET orig_frequency_idx == ListIndex(dims, "frequency") IN
    IF pos # orig_frequency_idx
    THEN ListInsert(ListWithout(dims, orig_frequency_idx), pos, "frequency")
    ELSE <<>>

\* TimeSeriesX(array, coords=coords, dims=dims): the rows of the array as one
\* dense array over the full index tuples
DataArray(array, dims, coords) ==
    LET shape == LeadShape \o <<Len(freqs), TimeAxisSize>> IN
    [dims   |-> dims,
     shape  |-> shape,
     coords |-> coords,
     attrs  |-> <<>>,
     values |-> [i \in IndexTuples(shape) |->
                    array[SubSeq(i, 1, Len(i) - 1)][i[Len(i)] + 1]]]

\* xarray's transpose(*new_dims): axis k of the result is the axis of that name
Transpose(da, new_dims) ==
    LET src(k) == ListIndex(da.dims, new_dims[k]) + 1
        new_shape == [k \in 1..Len(new_dims) |-> da.shape[src(k)]]
    IN  [dims   |-> new_dims,
         shape  |-> new_shape,
         coords |-> da.coords,
         attrs  |-> da.attrs,
         values |-> [j \in IndexTuples(new_shape) |->
                        da.values[[k \in 1..Len(da.dims) |->
                                     j[ListIndex(new_dims, da.dims[k]) + 1]]]]]

\* lines 137-141: the coordinates of the leading axes, the frequencies, the
\* time axis and the samplerate
OutputCoords(time_axis) ==
    [name \in (SeqRange(OutputDims) \union {"samplerate"}) |->
        IF name = "frequency" THEN freqs
        ELSE IF name = "time" THEN time_axis
        ELSE time_series.coords[name]]

\* lines 146-158, for one of the two arrays
BuildOne(array, dims, coords, new_dims) ==
    IF array = None THEN None
    ELSE Some([(IF Len(new_dims) # 0
                THEN Transpose(DataArray(TheValue(array), dims, coords), new_dims)
                ELSE DataArray(TheValue(array), dims, coords))
               EXCEPT !.attrs = time_series.attrs])

\* ------------------------------------------------------------ filter()
\* a window that ends one sample early
EndOffset_OneShort(start, time_axis_size) == start + time_axis_size - 1

\* lines 238-239
StartOffset(convolution_size, time_axis_size) == IntHalf(convolution_size - time_axis_size)
EndOffset(start, time_axis_size) == start + time_axis_size

BroadcastMsg == "could not broadcast input array"
NoneStoreMsg == "'NoneType' object does not support item assignment"

\* target[:] = source of numpy: the lengths agree, or the source has one
\* element, which fills the target
CanAssignAll(target, source) == Len(source) = Len(target) \/ Len(source) = 1
AssignAll(target, source) ==
    IF Len(source) = Len(target) THEN source ELSE [t \in 1..Len(target) |-> source[1]]

\* lines 214-223: the iterator, the output arrays, the coefficient buffer
FilterBegin ==
    /\ pc \in {"idle", "returned", "raised"}
    /\ pc' = "compute_wavelet_ffts"
    /\ data_iterator' = 0
    /\ wavelet_pow_array' = allocate_output_arrays(TimeAxisSize)[1]
    /\ wavelet_phase_array' = allocate_output_arrays(TimeAxisSize)[2]
    /\ wavelet_coef_single_array' = Some([t \in 1..TimeAxisSize |-> Uninit])
    /\ wavelet_fft_array' = None
    /\ convolution_size_array' = None
    /\ convolution_size_pow2' = 0
    /\ idx_tuple' = None
    /\ signal_fft' = None
    /\ w' = 0
    /\ signal_wavelet_conv' = None
    /\ start_offset' = 0
    /\ end_offset' = 0
    /\ transposed_dims' = <<>>
    /\ returned' = None
    /\ raised' = None
    /\ UNCHANGED <<object, frequency_dim_pos, first_returned>>

\* line 225
ComputeWaveletFfts ==
    /\ pc = "compute_wavelet_ffts"
    /\ LET r == compute_wavelet_ffts IN
       IF r.raises # None
       THEN /\ pc' = "raised"
            /\ raised' = r.raises
            /\ UNCHANGED ffts
       ELSE /\ pc' = "outer"
            /\ wavelet_fft_array' = Some(TheValue(r.returns)[1])
            /\ convolution_size_array' = Some(TheValue(r.returns)[2])
            /\ convolution_size_pow2' = TheValue(r.returns)[3]
            /\ UNCHANGED raised
    /\ UNCHANGED <<object, frequency_dim_pos, data_iterator, arrays, idx_tuple,
                   signal_fft, w, trim, transposed_dims, returned, first_returned>>

\* lines 230-232: the iterator's next pair and the slice's transform, or the
\* end of the loop
OuterLoop ==
    /\ pc = "outer"
    /\ IF data_iterator < Len(IterTuples)
       THEN /\ idx_tuple' = Some(IterTuples[data_iterator + 1])
            /\ data_iterator' = data_iterator + 1
            /\ signal_fft' = Some(fft(AsComplex(time_series.values[IterTuples[data_iterator + 1]]),
                                      convolution_size_pow2))
            /\ w' = 0
            /\ pc' = IF Len(TheValue(wavelet_fft_array)) > 0 THEN "inner" ELSE "outer"
       ELSE /\ pc' = "build"
            /\ UNCHANGED <<idx_tuple, data_iterator, signal_fft, w>>
    /\ UNCHANGED <<object, frequency_dim_pos, arrays, ffts, trim, transposed_dims,
                   returned, raised, first_returned>>

\* lines 234-248: one pass of the loop over the wavelets; w is the wavelet
\* the pass works on
InnerLoop ==
    /\ pc = "inner"
    /\ \E conv \in {ifft(SpectrumMul(TheValue(wavelet_fft_array)[w + 1], TheValue(signal_fft)))} :
       \E start \in {StartOffset(TheValue(convolution_size_array)[w + 1], TimeAxisSize)} :
       \E trimmed \in {PySlice(conv, start, EndOffset(start, TimeAxisSize))} :
         /\ signal_wavelet_conv' = Some(conv)
         /\ start_offset' = start
         /\ end_offset' = EndOffset(start, TimeAxisSize)
         /\ IF ~CanAssignAll(TheValue(wavelet_coef_single_array), trimmed)
            THEN /\ pc' = "raised"
                 /\ raised' = Some(ValueError(BroadcastMsg, <<>>))
                 /\ UNCHANGED <<arrays, w>>
            ELSE \E coefs \in {AssignAll(TheValue(wavelet_coef_single_array), trimmed)} :
                 \E single \in {CallFcn(compute_power_and_phase_fcn, coefs)} :
                   /\ wavelet_coef_single_array' = Some(coefs)
                   /\ IF \/ single[1] # None /\ wavelet_pow_array = None
                         \/ single[2] # None /\ wavelet_phase_array = None
                      THEN /\ pc' = "raised"
                           /\ raised' = Some(TypeError(NoneStoreMsg))
                           /\ UNCHANGED <<wavelet_pow_array, wavelet_phase_array, w>>
                      ELSE /\ wavelet_pow_array' =
                                store(TheValue(idx_tuple) \o <<w>>, wavelet_pow_array, single[1])
                           /\ wavelet_phase_array' =
                                store(TheValue(idx_tuple) \o <<w>>, wavelet_phase_array, single[2])
                           /\ w' = w + 1
                           /\ pc' = IF w + 1 < Len(TheValue(wavelet_fft_array))
                                    THEN "inner" ELSE "outer"
                           /\ UNCHANGED raised
    /\ UNCHANGED <<object, frequency_dim_pos, data_iterator, ffts, idx_tuple, signal_fft,
                   transposed_dims, returned, first_returned>>

\* line 253: build_output_arrays
BuildOutputArrays ==
    /\ pc = "build"
    /\ LET dims == OutputDims
           pos == NormalizedPos(Len(dims), frequency_dim_pos)
           new_dims == TransposedDims(dims, pos)
           coords == OutputCoords(time_series.coords["time"])
       IN  /\ frequency_dim_pos' = pos
           /\ transposed_dims' = new_dims
           /\ returned' = Some(<<BuildOne(wavelet_pow_array, dims, coords, new_dims),
                                 BuildOne(wavelet_phase_array, dims, coords, new_dims)>>)
    /\ first_returned' = IF first_returned = None THEN Some(returned') ELSE first_returned
    /\ pc' = "returned"
    /\ UNCHANGED <<object, data_iterator, arrays, ffts, idx_tuple, signal_fft, w, trim, raised>>

Next ==
    \/ FilterBegin
    \/ ComputeWaveletFfts
    \/ OuterLoop
    \/ InnerLoop
    \/ BuildOutputArrays

Spec == Init /\ [][Next]_vars

\* ------------------------------------------------------------ what the claims speak of
\* the kernel lengths of the requested frequencies, and the longest
KernelLength(i) == MorletLength(freqs[i])
MaxKernelLength == SeqMax([i \in 1..Len(freqs) |-> KernelLength(i)])
Rank == Len(LeadShape) + 2

\* filter() returned output k (1: power, 2: phase), and the output
HasOutput(k) == returned # None /\ TheValue(returned)[k] # None
Output(k) == TheValue(TheValue(returned)[k])

\* the length of axis name of a returned output
AxisLength(out, name) == out.shape[ListIndex(out.dims, name) + 1]

\* preallocated array k (1: power, 2: phase) exists, and the array
Allocated == <<wavelet_pow_array, wavelet_phase_array>>
HasArray(k) == Allocated[k] # None
Array(k) == TheValue(Allocated[k])

AfterSetup == pc \in {"outer", "inner", "build", "returned"}

\* C1: with a time axis no shorter than the longest kernel, the slice
\* signal_wavelet_conv[start_offset:end_offset] of every kernel has exactly
\* as many samples as the time axis, and so has the time axis of every
\* allocated array and of every returned output.
C1_TrimmedLengthIsTimeLength ==
    /\ signal_wavelet_conv # None =>
          Len(PySlice(TheValue(signal_wavelet_conv), start_offset, end_offset)) = TimeAxisSize
    /\ AfterSetup => raised = None
    /\ \A k \in 1..2 :
          /\ HasArray(k) => \A i \in DOMAIN Array(k) : Len(Array(k)[i]) = TimeAxisSize
          /\ HasOutput(k) =>
                /\ AxisLength(Output(k), "time") = TimeAxisSize
                /\ Cardinality(DOMAIN Output(k).values)
                      = SeqProd(LeadShape) * Len(freqs) * TimeAxisSize

C1_Witness ==
    /\ pc = "returned"
    /\ HasOutput(1) /\ HasOutput(2)
    /\ TimeAxisSize = 3
    /\ MaxKernelLength = 3
    /\ convolution_size_pow2 = 8

\* C2: when the time axis is exactly as long as the longest kernel,
\* compute_wavelet_ffts succeeds; when it is one sample shorter, it raises
\* the length error, whose message carries both lengths.
C2_LengthCheckBoundary ==
    (Len(freqs) > 0 /\ pc \notin {"idle", "compute_wavelet_ffts"}) =>
        /\ TimeAxisSize = MaxKernelLength => (AfterSetup /\ raised = None)
        /\ TimeAxisSize = MaxKernelLength - 1 =>
              /\ pc = "raised"
              /\ raised = Some(ValueError(LengthErrorMsg, <<TimeAxisSize, MaxKernelLength>>))

C2_Witness ==
    /\ pc = "raised"
    /\ Len(freqs) > 0
    /\ TimeAxisSize = MaxKernelLength - 1
    /\ TheValue(raised).args = <<2, 3>>

\* C3: in every returned output 'frequency' is at index p mod rank of dims,
\* p the position the filter was constructed with, rank the number of
\* leading axes plus two.
C3_FrequencyAtRequestedPosition ==
    \A k \in 1..2 : HasOutput(k) =>
        /\ Len(Output(k).dims) = Rank
        /\ ListIndex(Output(k).dims, "frequency") = kwds.frequency_dim_pos % Rank

C3_Witness ==
    /\ pc = "returned"
    /\ HasOutput(1)
    /\ kwds.frequency_dim_pos = -3
    /\ Rank = 4
    /\ Output(1).dims[2] = "frequency"

\* every cell of a returned output has been assigned
Filled(out) == DOMAIN out.values # {} /\ \A i \in DOMAIN out.values : out.values[i] # Uninit

\* C4: the power array is allocated, and the power output returned filled,
\* iff the mode is not 'phase'; the phase array and output iff the mode is
\* not 'power'; an output that is not requested is never allocated and is
\* returned as None.
C4_ModeFixesOutputs ==
    /\ pc # "idle" =>
          /\ HasArray(1) <=> (output # "phase")
          /\ HasArray(2) <=> (output # "power")
    /\ pc = "returned" =>
          /\ HasOutput(1) <=> (output # "phase")
          /\ HasOutput(2) <=> (output # "power")
          /\ \A k \in 1..2 : HasOutput(k) => Filled(Output(k))

C4_Witness ==
    /\ pc = "returned"
    /\ output = "bogus"
    /\ HasOutput(1) /\ HasOutput(2)
    /\ Filled(Output(1)) /\ Filled(Output(2))

\* ------------------------------------------------------------ the convolution the claims speak of
\* sample n (from 0) of the linear convolution of x and h
RECURSIVE LinearSum(_, _, _, _)
LinearSum(x, h, n, k) ==
    IF k = Len(x) THEN CZero
    ELSE CAdd(IF n - k >= 0 /\ n - k < Len(h) THEN CMul(x[k + 1], h[n - k + 1]) ELSE CZero,
              LinearSum(x, h, n, k + 1))

\* the input slice at idx and the kernel of wavelet v (from 0)
InputSlice(idx) == AsComplex(time_series.values[idx])
Kernel(v) == Morlet(freqs[v + 1])

\* coefficient t (from 0) of slice idx and wavelet v: the sample of the
\* linear convolution that lies floor((K_v - 1) / 2) samples after t
Coefficient(idx, v, t) ==
    LinearSum(InputSlice(idx), Kernel(v), ((Len(Kernel(v)) - 1) \div 2) + t, 0)

\* a pass of the inner loop has run and its locals are those of the pair
\* (idx_tuple, w - 1)
PassDone == signal_wavelet_conv # None /\ w > 0 /\ pc # "raised"

\* C5: the slice [start_offset:end_offset] of the circular convolution of
\* the padded length (a power of two) equals, sample for sample, the same
\* slice of the circular convolution of the exact length K_max + T - 1.
C5_PaddingInvariance ==
    PassDone =>
        LET exact == MaxKernelLength + TimeAxisSize - 1
            conv  == CircConv(Kernel(w - 1), InputSlice(TheValue(idx_tuple)), exact)
        IN  PySlice(TheValue(signal_wavelet_conv), start_offset, end_offset)
               = PySlice(conv, start_offset, end_offset)

C5_Witness ==
    /\ PassDone
    /\ convolution_size_pow2 = 8
    /\ MaxKernelLength + TimeAxisSize - 1 = 5
    /\ Len(Kernel(w - 1)) = 2
    /\ \E t \in 1..TimeAxisSize : TheValue(wavelet_coef_single_array)[t] # CZero

\* no cell of the preallocated arrays and of the coefficient buffer has been
\* assigned
NothingWritten ==
    /\ \A k \in 1..2 : HasArray(k) =>
          \A i \in DOMAIN Array(k) : \A t \in 1..Len(Array(k)[i]) : Array(k)[i][t] = Uninit
    /\ wavelet_coef_single_array # None =>
          \A t \in 1..TimeAxisSize : TheValue(wavelet_coef_single_array)[t] = Uninit

InvalidConfiguration == Len(freqs) = 0 \/ MaxKernelLength > TimeAxisSize

\* C6: when the longest kernel is longer than the time axis, or no frequency
\* is given, filter() never enters the fill loop: the iterator yields
\* nothing, nothing is convolved, no cell is assigned, nothing is returned,
\* and the call ends by raising.
C6_FailFast ==
    InvalidConfiguration =>
        /\ pc \in {"idle", "compute_wavelet_ffts", "raised"}
        /\ data_iterator = 0
        /\ idx_tuple = None /\ signal_fft = None /\ signal_wavelet_conv = None
        /\ NothingWritten
        /\ returned = None
        /\ pc = "raised" => raised # None

C6_Witness ==
    /\ pc = "raised"
    /\ Len(freqs) = 2
    /\ MaxKernelLength > TimeAxisSize
    /\ HasArray(1) /\ HasArray(2)
    /\ SeqProd(LeadShape) = 4

\* |c|^2, and d is atan2(y, x): the shortest integer vector of the direction
\* of (x, y), that of (1, 0) for atan2(0, 0) = 0
AbsSquared(c) == Re(c) * Re(c) + Im(c) * Im(c)
IsAtan2(d, y, x) ==
    IF x = 0 /\ y = 0 THEN d = <<1, 0>>
    ELSE /\ x * d[2] = y * d[1]
         /\ x * d[1] + y * d[2] > 0
         /\ Gcd(Abs(d[1]), Abs(d[2])) = 1

\* the row of array k the last pass of the inner loop stored
LastRow(k) == Array(k)[TheValue(idx_tuple) \o <<w - 1>>]

\* C7: in every mode, after each pass of the inner loop, the power stored
\* for coefficient c of the pass is |c|^2 and the phase stored is
\* atan2(imag(c), real(c)): the values do not depend on which of the three
\* functions the mode selected.
C7_PowerAndPhaseOfCoefficient ==
    PassDone =>
        \A t \in 1..TimeAxisSize :
            LET c == TheValue(wavelet_coef_single_array)[t] IN
            /\ HasArray(1) => LastRow(1)[t] = Cell(AbsSquared(c))
            /\ HasArray(2) => /\ LastRow(2)[t] # Uninit
                              /\ IsAtan2(LastRow(2)[t][1], Im(c), Re(c))

C7_Witness ==
    /\ PassDone
    /\ output = "power"
    /\ \E t \in 1..TimeAxisSize :
          LET c == TheValue(wavelet_coef_single_array)[t] IN
          /\ Re(c) < 0 /\ Im(c) > 0 /\ Re(c) # -Im(c)
          /\ LastRow(1)[t] = Cell(AbsSquared(c))

\* the index of a returned output's cell in the preallocated array: the
\* row (leading indices, frequency index) and the sample
CellRow(out, j) ==
    LET f == ListIndex(out.dims, "frequency")
        rest == ListWithout(j, f)
    IN  SubSeq(rest, 1, Len(rest) - 1) \o <<j[f + 1]>>
CellSample(out, j) ==
    ListWithout(j, ListIndex(out.dims, "frequency"))[Len(j) - 1] + 1

\* C8: with 'frequency' removed, the dims of every returned output are the
\* input's dims in their order, its shape is the input's shape, and each
\* cell holds the value of the preallocated array at the same leading
\* indices, frequency and sample; when p mod rank is the position directly
\* before time, no transpose is applied.
C8_OnlyFrequencyAxisMoves ==
    /\ \A k \in 1..2 : HasOutput(k) =>
          LET out == Output(k)
              f == ListIndex(out.dims, "frequency")
          IN  /\ ListWithout(out.dims, f) = time_series.dims
              /\ ListWithout(out.shape, f) = time_series.shape
              /\ out.shape[f + 1] = Len(freqs)
              /\ \A j \in DOMAIN out.values :
                    out.values[j] = Array(k)[CellRow(out, j)][CellSample(out, j)]
    /\ (pc = "returned" /\ kwds.frequency_dim_pos % Rank = Rank - 2) =>
          /\ transposed_dims = <<>>
          /\ \A k \in 1..2 : HasOutput(k) => Output(k).dims = OutputDims

C8_Witness ==
    /\ pc = "returned"
    /\ HasOutput(2)
    /\ time_series.shape = <<1, 2, 3>>
    /\ Len(freqs) = 2
    /\ Output(2).dims = <<"channels", "frequency", "events", "time">>
    /\ Output(2).shape = <<1, 2, 2, 3>>

\* the pair (idx, v) has been processed: idx comes before the tuple the
\* iterator yielded last in lexicographic order, or is that tuple and v is
\* below the wavelet the inner loop stands at
Processed(idx, v) ==
    \/ Flat(idx, LeadShape) < data_iterator - 1
    \/ Flat(idx, LeadShape) = data_iterator - 1 /\ v < w

\* row (idx, v) of array k holds the values computed from slice idx and
\* kernel v
RowComputed(k, idx, v) ==
    \A t \in 1..TimeAxisSize :
        LET c == Coefficient(idx, v, t - 1)
            cell == Array(k)[idx \o <<v>>][t]
        IN  IF k = 1 THEN cell = Cell(AbsSquared(c))
            ELSE cell # Uninit /\ IsAtan2(cell[1], Im(c), Re(c))

RowUnwritten(k, idx, v) ==
    \A t \in 1..TimeAxisSize : Array(k)[idx \o <<v>>][t] = Uninit

\* the state of the arrays at every point of the fill loop
C9_LoopInvariant ==
    (pc \in {"outer", "inner", "build"}) =>
        /\ idx_tuple # None => Flat(TheValue(idx_tuple), LeadShape) = data_iterator - 1
        /\ pc = "build" => data_iterator = SeqProd(LeadShape) /\ w = Len(freqs)
        /\ \A k \in 1..2 : HasArray(k) =>
              \A idx \in IndexTuples(LeadShape) : \A v \in 0..(Len(freqs) - 1) :
                 IF Processed(idx, v)
                 THEN (pc = "build" \/ idx \o <<v>> = TheValue(idx_tuple) \o <<w - 1>>)
                         => RowComputed(k, idx, v)
                 ELSE RowUnwritten(k, idx, v)

\* a pass of the inner loop assigns the row of its pair, unwritten until
\* then, and no other row; the other steps of the loop assign nothing
C9_PassWritesOwnRow ==
    /\ pc = "inner" =>
          \A k \in 1..2 : HasArray(k) =>
             /\ RowUnwritten(k, TheValue(idx_tuple), w)
             /\ \A r \in DOMAIN Array(k) :
                   r # TheValue(idx_tuple) \o <<w>> => Array(k)'[r] = Array(k)[r]
    /\ pc \in {"outer", "build"} =>
          UNCHANGED <<wavelet_pow_array, wavelet_phase_array>>

\* C9: the fill loop processes the pairs (idx, v) one by one in
\* lexicographic order, each once; a pass assigns only the row of its pair
\* and no assigned row is assigned again; when the loop ends every row of
\* every array holds the values computed from its own slice and kernel.
C9_FillLoop == []C9_LoopInvariant /\ [][C9_PassWritesOwnRow]_vars

C9_Witness ==
    /\ pc = "build"
    /\ HasArray(1) /\ HasArray(2)
    /\ LeadShape = <<2, 2>>
    /\ Len(freqs) = 2
    /\ data_iterator = 4
    /\ TheValue(idx_tuple) = <<1, 1>>
    /\ Array(1)[<<0, 1, 0>>] # Array(1)[<<1, 0, 0>>]

\* n is a power of two
IsPow2(n) == \E e \in 0..n : Pow2(e) = n

\* C10: each kernel's valid length is its own K_w + T - 1; after a pass for
\* kernel w, start_offset = floor((validLength[w] - T) / 2), end_offset =
\* start_offset + T, 0 <= start_offset, end_offset <= validLength[w] <=
\* K_max + T - 1 <= P with P a power of two, and the samples cut before and
\* after the window differ in number by at most one.
C10_TrimWindow ==
    /\ convolution_size_array # None =>
          /\ \A i \in 1..Len(freqs) :
                TheValue(convolution_size_array)[i] = KernelLength(i) + TimeAxisSize - 1
          /\ IsPow2(convolution_size_pow2)
          /\ MaxKernelLength + TimeAxisSize - 1 <= convolution_size_pow2
    /\ PassDone =>
          LET valid == TheValue(convolution_size_array)[w] IN
          /\ start_offset = (valid - TimeAxisSize) \div 2
          /\ end_offset = start_offset + TimeAxisSize
          /\ 0 <= start_offset
          /\ end_offset <= valid
          /\ valid <= MaxKernelLength + TimeAxisSize - 1
          /\ Abs(start_offset - (valid - end_offset)) <= 1

C10_Witness ==
    /\ PassDone
    /\ KernelLength(w) = 2
    /\ MaxKernelLength = 3
    /\ TimeAxisSize = 3
    /\ start_offset = 0 /\ end_offset = 3
    /\ TheValue(convolution_size_array)[w] = 4

\* a filter() call on an object whose first call has returned stands at
\* build_output_arrays
RepeatedCallBuilds == pc = "build" /\ first_returned # None

\* output k (1: power, 2: phase) of the first call exists, and the output
FirstHasOutput(k) == TheValue(TheValue(first_returned))[k] # None
FirstOutput(k) == TheValue(TheValue(TheValue(first_returned))[k])

\* C11: build_output_arrays of a repeated filter() call on the same filter
\* and input leaves frequency_dim_pos, normalized by the first call, as it
\* is; the call returns the outputs the first call returned, with
\* 'frequency' at the same index of dims; and no step changes the mode or
\* the function selected from it.
C11_RepeatedFilter ==
    [][/\ output' = output
       /\ compute_power_and_phase_fcn' = compute_power_and_phase_fcn
       /\ RepeatedCallBuilds =>
             /\ frequency_dim_pos' = frequency_dim_pos
             /\ frequency_dim_pos = kwds.frequency_dim_pos % Rank
             /\ \A k \in 1..2 :
                   /\ HasOutput(k)' <=> FirstHasOutput(k)
                   /\ FirstHasOutput(k) =>
                         /\ ListIndex(Output(k)'.dims, "frequency")
                               = ListIndex(FirstOutput(k).dims, "frequency")
                         /\ Output(k)' = FirstOutput(k)]_vars

C11_Witness ==
    /\ RepeatedCallBuilds
    /\ kwds.frequency_dim_pos = -1
    /\ Rank = 4
    /\ frequency_dim_pos = 3
    /\ FirstHasOutput(1) /\ FirstHasOutput(2)
    /\ FirstOutput(1).dims = <<"channels", "events", "time", "frequency">>

====
